---- MODULE Spec2Model ----
(***************************************************************************)
(* Proximity and accessibility analysis of                                 *)
(* notebooks/02-accessibility-analysis-multi-city.ipynb.                   *)
(*                                                                         *)
(* Spec       the serial section: the four layers of one city are loaded,  *)
(*            then the proximity and accessibility cells are run on them.  *)
(* SpecGraph  the two task graphs of the notebook (the delayed graph of    *)
(*            one city, the bag graph of all cities): construction,        *)
(*            visualisation, then dask.compute.                            *)
(***************************************************************************)
EXTENDS Integers, Sequences, FiniteSets, TLC

(* ------------------------------ bounds --------------------------------- *)
\* rows of a parks layer in the serial session
MaxParks == 2
\* rows of a buildings layer
MaxBuildings == 2
\* rows of a parks layer in the proximity runs (more parks than distance slots)
MaxPois == 4
\* worker threads of the Dask cluster
NumWorkers == 2

(* ------------------------- program constants --------------------------- *)
\* network.set_pois(maxdist=1000, maxitems=25)
maxdist == 1000
maxitems == 25
\* network.nearest_pois(distance=800, num_pois=3), accessibility_analysis(d=800)
distance == 800
num_pois == 3

(* ------------------------------ inputs --------------------------------- *)
\* The node layer of the modelled city: osmid and coordinates, in file order.
NodeRows ==
    << [osmid |-> 11, x |-> 0, y |-> 0],
       [osmid |-> 12, x |-> 4, y |-> 0],
       [osmid |-> 13, x |-> 4, y |-> 3] >>

\* Candidate edges between nodes of the layer, and the lengths an edge may have.
EdgePairs == << <<11, 12>>, <<12, 13>>, <<11, 13>> >>
Lengths == {300, 600}
\* An edge whose endpoint v is no osmid of the node layer.
DanglingEdge == [u |-> 12, v |-> 99, length |-> 300]

\* Centroids of parks and of buildings; a feature without geometry has a NaN
\* centroid. (2, 0) is equally near to nodes 11 and 12.
ParkCentroids ==
    << [x |-> 0, y |-> 0, finite |-> TRUE],
       [x |-> 3, y |-> 0, finite |-> TRUE],
       [x |-> 4, y |-> 2, finite |-> TRUE] >>
NaNCentroid == [x |-> 0, y |-> 0, finite |-> FALSE]
BuildingCentroids ==
    { [x |-> 2, y |-> 0, finite |-> TRUE],
      [x |-> 4, y |-> 2, finite |-> TRUE],
      NaNCentroid }

EdgeRows(c, dangling) ==
    LET all  == [i \in 1..Len(EdgePairs) |->
                    [u |-> EdgePairs[i][1], v |-> EdgePairs[i][2], length |-> c[i]]]
        kept == SelectSeq(all, LAMBDA r : r.length # 0)
    IN  IF dangling THEN Append(kept, DanglingEdge) ELSE kept

\* Edge layers: each candidate edge absent or of one of the lengths (the edge
\* 11-13, when present, is the long one), with or without the dangling edge.
EdgeLayers ==
    { EdgeRows(c, g) :
        c \in { c \in [1..Len(EdgePairs) -> Lengths \cup {0}] : c[3] # 300 },
        g \in BOOLEAN }

\* Park layers of 1..n rows. The analyses do not depend on the order of the
\* park rows, so one order of each collection of centroids is enumerated.
ParkLayers(n) ==
    UNION { { [i \in 1..k |-> ParkCentroids[f[i]]] :
                f \in { f \in [1..k -> 1..Len(ParkCentroids)] :
                          \A i \in 1..(k - 1) : f[i] <= f[i + 1] } } :
            k \in 1..n }

BuildingLayers == UNION { [1..n -> BuildingCentroids] : n \in 1..MaxBuildings }

(* --------------------------- data frames ------------------------------- *)
\* A (Geo)DataFrame object: its index, its columns, its rows, and the values of
\* the "accessibility" column (<<>> while the frame has no such column).
Frame(index, columns, rows) ==
    [index |-> index, columns |-> columns, rows |-> rows, acc |-> << >>]

\* A file of the data folder.
File(rows) == [status |-> "ok", rows |-> rows]
MissingFile == [status |-> "missing", rows |-> << >>]
CorruptFile == [status |-> "corrupt", rows |-> << >>]

\* The directory of one city: <city>/{nodes,edges,parks,buildings}_<city>.shp
CityDir(nf, ef, pf, bf) == [nodes |-> nf, edges |-> ef, parks |-> pf, buildings |-> bf]

\* load_features(data_folder, city, features): gpd.read_file of
\* <data_folder>/<city>/<features>_<city>.shp raises for a file that is absent or
\* is no geometry file, and else returns a frame with a RangeIndex and the
\* file's columns.
load_features(folder, city, features) ==
    LET f == folder[city][features]
    IN  IF f.status = "missing" THEN [ok |-> FALSE, err |-> "NotFound"]
        ELSE IF f.status = "corrupt" THEN [ok |-> FALSE, err |-> "FormatError"]
        ELSE [ok |-> TRUE, err |-> "none",
              frame |-> Frame("RangeIndex",
                              CASE features = "nodes" -> {"osmid", "x", "y", "geometry"}
                                [] features = "edges" -> {"u", "v", "length", "geometry"}
                                [] OTHER              -> {"geometry"},
                              f.rows)]

\* The objects of the session, by identity: heap[i] is the state of object i.
nodes == 1
edges == 2
parks == 3
buildings == 4

(* ------------------------------ pandas --------------------------------- *)
\* The index values of a frame: row positions 0..n-1 under a RangeIndex, the
\* osmid column after set_index("osmid").
IndexValues(f) ==
    [i \in 1..Len(f.rows) |-> IF f.index = "osmid" THEN f.rows[i].osmid ELSE i - 1]

\* A plausible slip: df.set_index(keys, drop=False, inplace=True).
set_index_inplace(h, id, keys) ==
    [heap |-> [h EXCEPT ![id].index = keys], frame |-> [h[id] EXCEPT !.index = keys]]

\* df.set_index(keys, drop=False): a new frame; the frame it is called on is kept.
set_index(h, id, keys) ==
    [heap |-> h, frame |-> [h[id] EXCEPT !.index = keys]]

(* ------------------------------ pandana -------------------------------- *)
Range(s) == { s[i] : i \in 1..Len(s) }

RemoveAt(s, i) == SubSeq(s, 1, i - 1) \o SubSeq(s, i + 1, Len(s))

RECURSIVE SortAsc(_)
SortAsc(s) ==
    IF s = << >> THEN << >>
    ELSE LET i == CHOOSE k \in 1..Len(s) : \A j \in 1..Len(s) : s[k] <= s[j]
         IN  << s[i] >> \o SortAsc(RemoveAt(s, i))

\* A plausible slip: endpoints are not looked up when the network is set up.
Network_unchecked(nf, ef) ==
    [ok |-> TRUE, err |-> "none",
     node_ids |-> IndexValues(nf),
     xy |-> [i \in 1..Len(nf.rows) |-> [x |-> nf.rows[i].x, y |-> nf.rows[i].y]],
     edges |-> Range(ef.rows),
     pois |-> << >>, vars |-> << >>]

\* pandana.Network(node_x, node_y, edge_from, edge_to, edge_weights): node ids are
\* the index of the node frame; an edge endpoint that is no node id has no node
\* index and the constructor raises.
Network(nf, ef) ==
    LET ids == IndexValues(nf)
    IN  IF \E i \in 1..Len(ef.rows) :
               ef.rows[i].u \notin Range(ids) \/ ef.rows[i].v \notin Range(ids)
        THEN [ok |-> FALSE, err |-> "ReferentialIntegrityError"]
        ELSE [ok |-> TRUE, err |-> "none",
              node_ids |-> ids,
              xy |-> [i \in 1..Len(nf.rows) |-> [x |-> nf.rows[i].x, y |-> nf.rows[i].y]],
              edges |-> Range(ef.rows),
              pois |-> << >>, vars |-> << >>]

SqDist(p, q) == (p.x - q.x) * (p.x - q.x) + (p.y - q.y) * (p.y - q.y)

\* The kd-tree query of one point: the position of the nearest node (the first
\* one in file order among equally near nodes).
NearestPos(net, c) ==
    CHOOSE i \in 1..Len(net.xy) :
        /\ \A j \in 1..Len(net.xy) : SqDist(net.xy[i], c) <= SqDist(net.xy[j], c)
        /\ \A j \in 1..(i - 1) : SqDist(net.xy[j], c) > SqDist(net.xy[i], c)

\* network.get_node_ids(x_col, y_col): one vectorised kd-tree query for all the
\* points; a non-finite coordinate makes the query, hence the whole call, raise.
get_node_ids(net, cs) ==
    IF \E i \in 1..Len(cs) : ~cs[i].finite
    THEN [ok |-> FALSE, err |-> "LookupError", ids |-> << >>]
    ELSE [ok |-> TRUE, err |-> "none",
          ids |-> [i \in 1..Len(cs) |-> net.node_ids[NearestPos(net, cs[i])]]]

\* Lengths of the simple paths from a to b (edges are two-way).
RECURSIVE PathLens(_, _, _, _)
PathLens(E, a, b, visited) ==
    IF a = b THEN {0}
    ELSE UNION { { e.length + l :
                     l \in PathLens(E, IF e.u = a THEN e.v ELSE e.u, b, visited \cup {a}) } :
                 e \in { e \in E : /\ (e.u = a \/ e.v = a)
                                   /\ (IF e.u = a THEN e.v ELSE e.u) \notin visited \cup {a} } }

Min(S) == CHOOSE m \in S : \A k \in S : m <= k

\* Whether node b is within network distance d of node a.
WithinDist(net, a, b, d) == \E l \in PathLens(net.edges, a, b, {}) : l <= d

\* A plausible slip: the POIs are searched up to the registration radius.
PoiDists_maxdist(net, n, d) ==
    LET within == SelectSeq(net.pois, LAMBDA p : WithinDist(net, n, p, maxdist))
    IN  SortAsc([i \in 1..Len(within) |-> Min(PathLens(net.edges, n, within[i], {}))])

\* The distances from node n to the registered POIs within d, nearest first.
PoiDists(net, n, d) ==
    LET lim    == IF d < maxdist THEN d ELSE maxdist
        within == SelectSeq(net.pois, LAMBDA p : WithinDist(net, n, p, lim))
    IN  SortAsc([i \in 1..Len(within) |-> Min(PathLens(net.edges, n, within[i], {}))])

\* network.nearest_pois(distance, category, num_pois): per node, num_pois distance
\* slots; a slot without a POI holds max_distance, which defaults to distance.
nearest_pois(net, d, k) ==
    [i \in 1..Len(net.node_ids) |->
        LET found == PoiDists(net, net.node_ids[i], d)
            cap   == IF k < maxitems THEN k ELSE maxitems
        IN  [j \in 1..k |-> IF j <= Len(found) /\ j <= cap THEN found[j] ELSE d]]

\* network.aggregate(distance, type="count", name): per node, the number of rows
\* of the variable set on nodes within the distance.
aggregate(net, d) ==
    [n \in Range(net.node_ids) |->
        Cardinality({ i \in 1..Len(net.vars) : WithinDist(net, n, net.vars[i], d) })]

(* --------------------------- the notebook ------------------------------ *)
\* build_network(nodes, edges, parks): h is the heap, n, e, p the objects passed.
build_network(h, n, e, p) ==
    LET ni  == set_index(h, n, "osmid")
        ei  == set_index(ni.heap, e, "uv")
        net == Network(ni.frame, ei.frame)
        poi == IF net.ok THEN get_node_ids(net, ei.heap[p].rows)
               ELSE [ok |-> FALSE, err |-> net.err, ids |-> << >>]
    IN  IF ~net.ok THEN [ok |-> FALSE, err |-> net.err, heap |-> ei.heap, net |-> net]
        ELSE IF ~poi.ok THEN [ok |-> FALSE, err |-> poi.err, heap |-> ei.heap, net |-> net]
        ELSE [ok |-> TRUE, err |-> "none", heap |-> ei.heap,
              net |-> [net EXCEPT !.pois = poi.ids]]

\* proximity_analysis(nodes, edges, parks): the result is a new frame, indexed by
\* node id, a new object of the heap.
proximity_analysis(h, n, e, p) ==
    LET b == build_network(h, n, e, p)
    IN  IF ~b.ok
        THEN [ok |-> FALSE, err |-> b.err, heap |-> b.heap, result |-> 0, queries |-> << >>]
        ELSE [ok |-> TRUE, err |-> "none",
              heap |-> Append(b.heap,
                         [index |-> "osmid", columns |-> 1..num_pois,
                          rows |-> nearest_pois(b.net, distance, num_pois),
                          acc |-> << >>]),
              result |-> Len(b.heap) + 1,
              queries |-> << "nearest_pois" >>]

\* A plausible slip: the aggregate values are assigned in node order, not looked
\* up by the building's node id.
map_by_position(ids, dict, net) ==
    [i \in 1..Len(ids) |-> dict[net.node_ids[((i - 1) % Len(net.node_ids)) + 1]]]

\* node_ids.map(accessibility.to_dict())
map(ids, dict, net) == [i \in 1..Len(ids) |-> dict[ids[i]]]

\* accessibility_analysis(nodes, edges, parks, buildings, d): the "accessibility"
\* column is assigned on the buildings object passed in, which is returned.
accessibility_analysis(h, n, e, p, bl, d) ==
    LET b   == build_network(h, n, e, p)
        pk  == get_node_ids(b.net, b.heap[p].rows)
        net == [b.net EXCEPT !.vars = pk.ids]
        agg == aggregate(net, d)
        bn  == get_node_ids(net, b.heap[bl].rows)
    IN  IF ~b.ok
        THEN [ok |-> FALSE, err |-> b.err, heap |-> b.heap, result |-> 0, queries |-> << >>]
        ELSE IF ~pk.ok
        THEN [ok |-> FALSE, err |-> pk.err, heap |-> b.heap, result |-> 0,
              queries |-> << "get_node_ids" >>]
        ELSE IF ~bn.ok
        THEN [ok |-> FALSE, err |-> bn.err, heap |-> b.heap, result |-> 0,
              queries |-> << "get_node_ids", "aggregate", "get_node_ids" >>]
        ELSE [ok |-> TRUE, err |-> "none",
              heap |-> [b.heap EXCEPT ![bl].columns = @ \cup {"accessibility"},
                                      ![bl].acc = map(bn.ids, agg, net)],
              result |-> bl,
              queries |-> << "get_node_ids", "aggregate", "get_node_ids" >>]

(* ------------------------------ state ---------------------------------- *)
VARIABLES
    data_folder,    \* the files of the data folder, by city and layer
    heap,           \* the objects in memory, by identity
    loaded,         \* each object as it was when it was created
    proximity,      \* the object bound to `proximity` (0: unbound)
    accessibility,  \* the object bound to `accessibility` (0: unbound)
    raised,         \* the exception of the last cell run ("none": it returned)
    queries,        \* the network queries the last serial cell issued
    lastCell,       \* the last serial cell run
    mode,           \* the section of the notebook: "serial", "delayed" or "bag"
    cities,         \* the list `cities` (the one city of the delayed section)
    pc,             \* the next cell of the section
    graph,          \* the tasks composed so far
    state,          \* per task: "waiting", "processing", "memory" or "erred"
    result,         \* per task: the object it returned (0: none)
    exc,            \* per task: the exception it carries ("none": none)
    started,        \* the tasks whose body has been started
    run,            \* dask.compute: "idle", "computing", "returned" or "raised"
    requested,      \* the tasks dask.compute was asked for
    written,        \* per file written by the notebook: the number of writes
    filesRead,      \* the layer files read so far
    figDir,         \* whether fig_folder exists
    readonly,       \* the cities whose figure file cannot be written
    firstRun        \* per city, the accessibility table of the run before this one

serialVars == << heap, loaded, proximity, accessibility, raised, queries, lastCell >>
graphVars == << mode, cities, pc, graph, state, result, exc, started, run, requested,
                written, filesRead, figDir, readonly >>
vars == << data_folder, serialVars, graphVars, firstRun >>

\* The city names of the modelled data folder, and the files the notebook writes.
CityNames == {"Delft", "Leiden"}
NoWrites == [f \in CityNames \cup {"mydask"} |-> 0]

\* The pipeline has been run at most once.
NoRun == << >>

(* --------------------------- serial section ---------------------------- *)
\* city = "Delft"; parks, nodes, edges, buildings = load_features(data_folder, city, ...)
Loaded(EL, PL, BL) ==
    /\ \E er \in EL, pr \in PL, br \in BL :
          data_folder = [c \in {"Delft"} |->
                            CityDir(File(NodeRows), File(er), File(pr), File(br))]
    /\ heap = << load_features(data_folder, "Delft", "nodes").frame,
                 load_features(data_folder, "Delft", "edges").frame,
                 load_features(data_folder, "Delft", "parks").frame,
                 load_features(data_folder, "Delft", "buildings").frame >>
    /\ loaded = heap
    /\ proximity = 0
    /\ accessibility = 0
    /\ raised = "none"
    /\ queries = << >>
    /\ lastCell = "load"
    /\ mode = "serial"
    /\ cities = << "Delft" >>
    /\ pc = 1
    /\ graph = {}
    /\ state = << >>
    /\ result = << >>
    /\ exc = << >>
    /\ started = {}
    /\ run = "idle"
    /\ requested = {}
    /\ written = NoWrites
    /\ filesRead = { [city |-> "Delft", layer |-> l] :
                       l \in {"nodes", "edges", "parks", "buildings"} }
    /\ figDir = FALSE
    /\ firstRun = NoRun
    /\ readonly = {}

\* proximity = proximity_analysis(nodes, edges, parks). Binding the name again
\* drops the frame of the earlier run; the new frame takes its place in the heap.
ProximityCell ==
    /\ mode = "serial"
    /\ LET r == proximity_analysis(heap, nodes, edges, parks)
       IN  /\ heap' = IF r.ok /\ proximity # 0
                      THEN [SubSeq(r.heap, 1, Len(heap)) EXCEPT ![proximity] = r.heap[r.result]]
                      ELSE r.heap
           /\ proximity' = IF r.ok /\ proximity = 0 THEN r.result ELSE proximity
           /\ raised' = r.err
           /\ queries' = r.queries
    /\ lastCell' = "proximity"
    /\ UNCHANGED << data_folder, firstRun, loaded, accessibility, graphVars >>

\* accessibility = accessibility_analysis(nodes, edges, parks, buildings)
AccessibilityCell ==
    /\ mode = "serial"
    /\ LET r == accessibility_analysis(heap, nodes, edges, parks, buildings, distance)
       IN  /\ heap' = r.heap
           /\ accessibility' = IF r.ok THEN r.result ELSE accessibility
           /\ raised' = r.err
           /\ queries' = r.queries
    /\ lastCell' = "accessibility"
    /\ UNCHANGED << data_folder, firstRun, loaded, proximity, graphVars >>

Init == Loaded(EdgeLayers, ParkLayers(MaxParks), BuildingLayers)

Next == ProximityCell \/ AccessibilityCell

Spec == Init /\ [][Next]_vars

\* The proximity cell alone, on cities with up to MaxPois parks.
InitProximity ==
    Loaded(EdgeLayers, ParkLayers(MaxPois), { << [x |-> 2, y |-> 0, finite |-> TRUE] >> })

NextProximity == ProximityCell

SpecProximity == InitProximity /\ [][NextProximity]_vars

(* ----------------------- delayed and bag sections ---------------------- *)
LayerNames == {"nodes", "edges", "parks", "buildings"}

\* The tasks of a graph: one call of a function on partition `part` (the one
\* city of the delayed graph is partition 1).
LoadTask(i, l) == [fn |-> "load_features", part |-> i, layer |-> l]
ProximityTask(i) == [fn |-> "proximity_analysis", part |-> i, layer |-> "-"]
AccessibilityTask(i) == [fn |-> "accessibility_analysis", part |-> i, layer |-> "-"]
PlotTask(i) == [fn |-> "plot", part |-> i, layer |-> "-"]

\* The deferred results a task is called with, in argument order:
\*   proximity_analysis_lazy(nodes_p, edges_p, parks_p)
\*   accessibility_analysis_lazy(nodes_p, edges_p, parks_p, buildings_p)
\*   db.map(accessibility_analysis, nodes_bag, edges_bag, parks_bag, buildings_bag)
\*   db.map(plot, cities_bag, parks_bag, accessibility_bag, fig_folder)
\* A plausible slip: the parks passed to plot come from a bag made of the city
\* list in the reverse order.
Args_reversed(t) ==
    CASE t.fn = "proximity_analysis" ->
            << LoadTask(t.part, "nodes"), LoadTask(t.part, "edges"), LoadTask(t.part, "parks") >>
      [] t.fn = "accessibility_analysis" ->
            << LoadTask(t.part, "nodes"), LoadTask(t.part, "edges"),
               LoadTask(t.part, "parks"), LoadTask(t.part, "buildings") >>
      [] t.fn = "plot" -> << LoadTask(Len(cities) + 1 - t.part, "parks"),
                             AccessibilityTask(t.part) >>
      [] OTHER -> << >>

Args(t) ==
    CASE t.fn = "proximity_analysis" ->
            << LoadTask(t.part, "nodes"), LoadTask(t.part, "edges"), LoadTask(t.part, "parks") >>
      [] t.fn = "accessibility_analysis" ->
            << LoadTask(t.part, "nodes"), LoadTask(t.part, "edges"),
               LoadTask(t.part, "parks"), LoadTask(t.part, "buildings") >>
      [] t.fn = "plot" -> << LoadTask(t.part, "parks"), AccessibilityTask(t.part) >>
      [] OTHER -> << >>

\* The object a task's result is: each task has a place of its own in the heap
\* (accessibility_analysis and plot create no frame).
NoObject == Frame("none", {}, << >>)
Slot(t) ==
    5 * (t.part - 1) +
    (CASE t.layer = "nodes" -> 1 [] t.layer = "edges" -> 2 [] t.layer = "parks" -> 3
       [] t.layer = "buildings" -> 4 [] OTHER -> 5)

\* The data dependencies of a task.
Deps(t) == Range(Args(t))

\* The tasks that need the result of t, directly or not.
RECURSIVE Needs(_, _)
Needs(t2, t) == t \in Deps(t2) \/ \E d \in Deps(t2) : Needs(d, t)

\* The cells of the delayed section (lines 324-452).
DelayedCells ==
    << [op |-> "compose", adds |-> { LoadTask(1, l) : l \in LayerNames }],
       [op |-> "compose", adds |-> { ProximityTask(1) }],
       [op |-> "visualize", adds |-> {}],
       [op |-> "compose", adds |-> { AccessibilityTask(1) }],
       [op |-> "visualize", adds |-> {}],
       [op |-> "visualize", adds |-> {}],
       [op |-> "compute", adds |-> { ProximityTask(1), AccessibilityTask(1) }] >>

\* The cells of the bag section (lines 474-605), for the list cs of cities.
BagCells(cs) ==
    << [op |-> "glob", adds |-> {}],
       [op |-> "compose", adds |-> { LoadTask(i, l) : i \in 1..Len(cs), l \in LayerNames }],
       [op |-> "compose", adds |-> { AccessibilityTask(i) : i \in 1..Len(cs) }],
       [op |-> "visualize", adds |-> {}],
       [op |-> "mkdir", adds |-> {}],
       [op |-> "compose", adds |-> { PlotTask(i) : i \in 1..Len(cs) }],
       [op |-> "compute", adds |-> { PlotTask(i) : i \in 1..Len(cs) }] >>

Cells == IF mode = "delayed" THEN DelayedCells ELSE BagCells(cities)
Cell == Cells[pc]

\* A plausible slip: the function is called, not its delayed wrapper, so the
\* body starts when the cell is run.
ComposedState_eager == "processing"

\* The state of a task when its deferred call is composed.
ComposedState == "waiting"

\* plot(city, parks, buildings, fig_folder): the file written is
\* <fig_folder>/<city>.png.
FigPath(city) == city

\* plot: buildings.plot(column="accessibility") needs the column; fig.savefig
\* needs fig_folder and a writable file.
plot(h, city, p, b) ==
    IF "accessibility" \notin h[b].columns
    THEN [ok |-> FALSE, err |-> "KeyError", path |-> "none"]
    ELSE IF ~figDir \/ city \in readonly
    THEN [ok |-> FALSE, err |-> "IOError", path |-> "none"]
    ELSE [ok |-> TRUE, err |-> "none", path |-> FigPath(city)]

\* The well-formed directory of a city.
GoodDir(c) ==
    IF c = "Delft"
    THEN CityDir(File(NodeRows), File(EdgeRows(<< 300, 600, 0 >>, FALSE)),
                 File(<< ParkCentroids[1], ParkCentroids[2] >>),
                 File(<< [x |-> 2, y |-> 0, finite |-> TRUE],
                         [x |-> 4, y |-> 2, finite |-> TRUE] >>))
    ELSE CityDir(File(NodeRows), File(EdgeRows(<< 600, 300, 0 >>, FALSE)),
                 File(<< ParkCentroids[3] >>),
                 File(<< [x |-> 4, y |-> 2, finite |-> TRUE] >>))

\* The conditions a city may be in: well-formed, or with one defect.
Conditions == {"ok", "edges_corrupt", "empty_building", "png_readonly"}

DirOf(c, k) ==
    CASE k = "edges_corrupt"  -> [GoodDir(c) EXCEPT !.edges = CorruptFile]
      [] k = "empty_building" ->
            [GoodDir(c) EXCEPT !.buildings = File(Append(GoodDir(c).buildings.rows, NaNCentroid))]
      [] OTHER -> GoodDir(c)

Orderings(S) ==
    { f \in [1..Cardinality(S) -> S] : \A i, j \in 1..Cardinality(S) : f[i] = f[j] => i = j }

\* The notebook before the first cell of the delayed or of the bag section.
InitGraph ==
    /\ mode \in {"delayed", "bag"}
    /\ \E k \in [CityNames -> Conditions] :
          /\ mode = "delayed" => \A c \in CityNames \ {"Delft"} : k[c] = "ok"
          /\ mode = "delayed" => k["Delft"] # "png_readonly"
          /\ data_folder = [c \in CityNames |-> DirOf(c, k[c])]
          /\ readonly = { c \in CityNames : k[c] = "png_readonly" }
    /\ cities = IF mode = "delayed" THEN << "Delft" >> ELSE << >>
    /\ pc = 1
    /\ heap = [i \in 1..(5 * Cardinality(CityNames)) |-> NoObject]
    /\ loaded = heap
    /\ proximity = 0
    /\ accessibility = 0
    /\ raised = "none"
    /\ queries = << >>
    /\ lastCell = "none"
    /\ graph = {}
    /\ state = << >>
    /\ result = << >>
    /\ exc = << >>
    /\ started = {}
    /\ run = "idle"
    /\ requested = {}
    /\ written = NoWrites
    /\ filesRead = {}
    /\ figDir = FALSE
    /\ firstRun = NoRun

\* cities = [el.name for el in data_folder.glob("*")]: the directory names, in
\* the order the file system lists them.
Glob ==
    /\ mode = "bag" /\ run = "idle" /\ Cell.op = "glob"
    /\ cities' \in Orderings(DOMAIN data_folder)
    /\ pc' = pc + 1
    /\ UNCHANGED << data_folder, firstRun, serialVars, mode, graph, state, result, exc, started,
                    run, requested, written, filesRead, figDir, readonly >>

\* A cell that composes deferred calls: load_features_lazy(...),
\* proximity_analysis_lazy(...), accessibility_analysis_lazy(...), db.map(...).
Compose ==
    /\ mode # "serial" /\ run = "idle" /\ Cell.op = "compose"
    /\ graph' = graph \cup Cell.adds
    /\ state' = [t \in Cell.adds |-> ComposedState] @@ state
    /\ result' = [t \in Cell.adds |-> 0] @@ result
    /\ exc' = [t \in Cell.adds |-> "none"] @@ exc
    /\ started' = started \cup { t \in Cell.adds : ComposedState # "waiting" }
    /\ pc' = pc + 1
    /\ UNCHANGED << data_folder, firstRun, serialVars, mode, cities, run, requested, written,
                    filesRead, figDir, readonly >>

\* dask.visualize(...): renders the graph to its default file, mydask.png.
Visualize ==
    /\ mode # "serial" /\ run = "idle" /\ Cell.op = "visualize"
    /\ written' = [written EXCEPT !["mydask"] = @ + 1]
    /\ pc' = pc + 1
    /\ UNCHANGED << data_folder, firstRun, serialVars, mode, cities, graph, state, result, exc,
                    started, run, requested, filesRead, figDir, readonly >>

\* fig_folder.mkdir(exist_ok=True)
Mkdir ==
    /\ mode # "serial" /\ run = "idle" /\ Cell.op = "mkdir"
    /\ figDir' = TRUE
    /\ pc' = pc + 1
    /\ UNCHANGED << data_folder, firstRun, serialVars, mode, cities, graph, state, result, exc,
                    started, run, requested, written, filesRead, readonly >>

\* dask.compute(proximity_p, accessibility_p) / dask.compute(res): the graph is
\* handed to the cluster and the cell waits for the results.
Compute ==
    /\ mode # "serial" /\ run = "idle" /\ Cell.op = "compute"
    /\ run' = "computing"
    /\ requested' = Cell.adds
    /\ pc' = pc + 1
    /\ UNCHANGED << data_folder, firstRun, serialVars, mode, cities, graph, state, result, exc,
                    started, written, filesRead, figDir, readonly >>

Processing == { t \in graph : state[t] = "processing" }

\* The scheduler starts a task whose dependencies are all in memory, on a free
\* worker thread, while the computation is wanted.
Start(t) ==
    /\ run = "computing"
    /\ state[t] = "waiting"
    /\ \A d \in Deps(t) : state[d] = "memory"
    /\ Cardinality(Processing) < NumWorkers
    /\ state' = [state EXCEPT ![t] = "processing"]
    /\ started' = started \cup {t}
    /\ UNCHANGED << data_folder, firstRun, serialVars, mode, cities, pc, graph, result, exc, run,
                    requested, written, filesRead, figDir, readonly >>

\* What a task body did: whether it returned, its exception, the heap it left,
\* the object it returned and the figure file it wrote.
Outcome(ok, err, h, res, path) ==
    [ok |-> ok, err |-> err, heap |-> h, result |-> res, path |-> path]

\* A frame the body creates is put at the task's place in the heap.
LoadOutcome(t, r) ==
    IF r.ok THEN Outcome(TRUE, "none", [heap EXCEPT ![Slot(t)] = r.frame], Slot(t), "none")
    ELSE Outcome(FALSE, r.err, heap, 0, "none")

ProximityOutcome(t, r) ==
    IF r.ok
    THEN Outcome(TRUE, "none",
                 [SubSeq(r.heap, 1, Len(heap)) EXCEPT ![Slot(t)] = r.heap[r.result]],
                 Slot(t), "none")
    ELSE Outcome(FALSE, r.err, r.heap, 0, "none")

AccessibilityOutcome(t, r) == Outcome(r.ok, r.err, r.heap, r.result, "none")

PlotOutcome(t, r) == Outcome(r.ok, r.err, heap, 0, r.path)

\* The objects the dependencies of t returned, in argument order.
ArgObjects(t) == [i \in 1..Len(Args(t)) |-> result[Args(t)[i]]]

\* The body of task t on the objects its dependencies returned.
Body(t) ==
    CASE t.fn = "load_features" ->
            LoadOutcome(t, load_features(data_folder, cities[t.part], t.layer))
      [] t.fn = "proximity_analysis" ->
            ProximityOutcome(t, proximity_analysis(heap, ArgObjects(t)[1], ArgObjects(t)[2],
                                                   ArgObjects(t)[3]))
      [] t.fn = "accessibility_analysis" ->
            AccessibilityOutcome(t, accessibility_analysis(heap, ArgObjects(t)[1],
                                     ArgObjects(t)[2], ArgObjects(t)[3], ArgObjects(t)[4],
                                     distance))
      [] OTHER ->
            PlotOutcome(t, plot(heap, cities[t.part], ArgObjects(t)[1], ArgObjects(t)[2]))

\* The scheduler's record of the end of task t with outcome r: the result goes
\* to memory, or the exception marks the task, and the waiting tasks that need
\* it, as erred.
Record(t, r) ==
    /\ heap' = r.heap
    /\ loaded' = IF r.ok /\ t.fn \in {"load_features", "proximity_analysis"}
                 THEN [loaded EXCEPT ![Slot(t)] = r.heap[Slot(t)]]
                 ELSE loaded
    /\ result' = [result EXCEPT ![t] = r.result]
    /\ state' = [u \in graph |->
                   IF u = t THEN (IF r.ok THEN "memory" ELSE "erred")
                   ELSE IF ~r.ok /\ state[u] = "waiting" /\ Needs(u, t) THEN "erred"
                   ELSE state[u]]
    /\ exc' = [u \in graph |->
                   IF ~r.ok /\ (u = t \/ (state[u] = "waiting" /\ Needs(u, t)))
                   THEN r.err ELSE exc[u]]
    /\ written' = IF r.path # "none" THEN [written EXCEPT ![r.path] = @ + 1]
                  ELSE written

\* The body of a started task runs to its end.
Finish(t) ==
    /\ state[t] = "processing"
    /\ \A d \in Deps(t) : state[d] = "memory"
    /\ Record(t, Body(t))
    /\ filesRead' = IF t.fn = "load_features"
                    THEN filesRead \cup { [city |-> cities[t.part], layer |-> t.layer] }
                    ELSE filesRead
    /\ UNCHANGED << data_folder, firstRun, proximity, accessibility, raised, queries, lastCell,
                    mode, cities, pc, graph, started, run, requested, figDir, readonly >>

\* dask.compute raises the exception of a requested task that has erred; the
\* tasks still waiting are dropped with the computation.
ComputeRaises ==
    /\ run = "computing"
    /\ \E t \in requested :
          /\ state[t] = "erred"
          /\ raised' = exc[t]
    /\ run' = "raised"
    /\ UNCHANGED << data_folder, firstRun, heap, loaded, proximity, accessibility, queries, lastCell,
                    mode, cities, pc, graph, state, result, exc, started, requested,
                    written, filesRead, figDir, readonly >>

\* dask.compute returns once every requested task is in memory;
\* proximity, accessibility = dask.compute(proximity_p, accessibility_p).
ComputeReturns ==
    /\ run = "computing"
    /\ \A t \in requested : state[t] = "memory"
    /\ run' = "returned"
    /\ proximity' = IF mode = "delayed" THEN result[ProximityTask(1)] ELSE proximity
    /\ accessibility' = IF mode = "delayed" THEN result[AccessibilityTask(1)]
                        ELSE accessibility
    /\ UNCHANGED << data_folder, firstRun, heap, loaded, raised, queries, lastCell,
                    mode, cities, pc, graph, state, result, exc, started, requested,
                    written, filesRead, figDir, readonly >>

NextGraph ==
    \/ Glob
    \/ Compose
    \/ Visualize
    \/ Mkdir
    \/ Compute
    \/ \E t \in graph : Start(t)
    \/ \E t \in graph : Finish(t)
    \/ ComputeRaises
    \/ ComputeReturns

SpecGraph == InitGraph /\ [][NextGraph]_vars

(* ------------------ properties of the serial section ------------------- *)
\* Stated on the layers as loaded, without the network object of the code.
LoadedEdges == Range(loaded[edges].rows)
DanglingEndpoint ==
    \E e \in LoadedEdges :
        \/ \A i \in 1..Len(NodeRows) : NodeRows[i].osmid # e.u
        \/ \A i \in 1..Len(NodeRows) : NodeRows[i].osmid # e.v
IsNearestNode(n, c) ==
    \E i \in 1..Len(NodeRows) :
        /\ NodeRows[i].osmid = n
        /\ \A j \in 1..Len(NodeRows) : SqDist(NodeRows[i], c) <= SqDist(NodeRows[j], c)
OsmIds == { NodeRows[i].osmid : i \in 1..Len(NodeRows) }
ParkNode(p) == CHOOSE n \in OsmIds : IsNearestNode(n, loaded[parks].rows[p])
ParkDist(n, p) == PathLens(LoadedEdges, n, ParkNode(p), {})
ParksWithin(n, d) ==
    { p \in 1..Len(loaded[parks].rows) : \E l \in ParkDist(n, p) : l <= d }

\* C3: every building of the table returned by accessibility_analysis carries
\* the number of parks within network distance d of a graph node nearest to the
\* building's centroid.
C3_NearestNodeAggregate ==
    accessibility # 0 =>
        \A i \in 1..Len(heap[accessibility].rows) :
            \E n \in OsmIds :
                /\ IsNearestNode(n, heap[accessibility].rows[i])
                /\ heap[accessibility].acc[i] = Cardinality(ParksWithin(n, distance))

\* Two buildings of one table snapped to nodes with different park counts.
C3_Witness ==
    /\ accessibility # 0
    /\ lastCell = "accessibility"
    /\ \E i, j \in 1..Len(heap[accessibility].rows) :
          /\ heap[accessibility].acc[i] > heap[accessibility].acc[j]
          /\ heap[accessibility].acc[j] > 0

\* C4: proximity_analysis returns, for every graph node, exactly 3 distance
\* slots; each slot holds the network distance, at most 800, to a registered
\* park or the not-found value (800); a node with no park within 800 holds the
\* not-found value in all 3 slots.
C4_ProximitySlots ==
    proximity # 0 =>
        /\ Len(heap[proximity].rows) = Len(NodeRows)
        /\ \A i \in 1..Len(NodeRows) :
              LET n   == NodeRows[i].osmid
                  row == heap[proximity].rows[i]
              IN  /\ Len(row) = 3
                  /\ \A j \in 1..Len(row) :
                        \/ row[j] = 800
                        \/ /\ row[j] <= 800
                           /\ \E p \in ParksWithin(n, 800) : row[j] = Min(ParkDist(n, p))
                  /\ ParksWithin(n, 800) = {} => \A j \in 1..Len(row) : row[j] = 800

\* A node whose nearest park is beyond 800 but within the registration radius,
\* beside a node with more parks in range than slots.
C4_Witness ==
    /\ proximity # 0
    /\ \E i \in 1..Len(NodeRows) :
          /\ ParksWithin(NodeRows[i].osmid, 800) = {}
          /\ ParksWithin(NodeRows[i].osmid, 1000) # {}
          /\ \A j \in 1..3 : heap[proximity].rows[i][j] = 800
    /\ \E i \in 1..Len(NodeRows) :
          /\ Cardinality(ParksWithin(NodeRows[i].osmid, 800)) > 3
          /\ \A j \in 1..3 : heap[proximity].rows[i][j] < 800

C6_PerBuildingFailure ==
    (/\ lastCell = "accessibility"
     /\ ~DanglingEndpoint
     /\ \E i \in 1..Len(loaded[buildings].rows) : ~loaded[buildings].rows[i].finite
     /\ \E i \in 1..Len(loaded[buildings].rows) : loaded[buildings].rows[i].finite) =>
        /\ raised = "none"
        /\ accessibility # 0
        /\ "accessibility" \in heap[buildings].columns
        /\ \A i \in 1..Len(loaded[buildings].rows) :
              loaded[buildings].rows[i].finite => i \in DOMAIN heap[buildings].acc

\* C10: after any analysis cell the four layer objects are as loaded, and the
\* results are objects other than the layers.
C10_LayersImmutable ==
    /\ \A id \in {nodes, edges, parks, buildings} : heap[id] = loaded[id]
    /\ proximity \notin {nodes, edges, parks, buildings}
    /\ accessibility \notin {nodes, edges, parks, buildings}

(* -------------- properties of the delayed and bag sections ------------- *)
\* dask.compute has returned or raised and no task body is running any more.
RunOver == run \in {"returned", "raised"} /\ Processing = {}

\* Stated on the files of a city, without the tasks of the code.
LayersOk(c, L) == \A l \in L : data_folder[c][l].status = "ok"
WellFormed(c) ==
    /\ LayersOk(c, LayerNames)
    /\ \A i \in 1..Len(data_folder[c].buildings.rows) : data_folder[c].buildings.rows[i].finite
PartOf(c) == CHOOSE i \in 1..Len(cities) : cities[i] = c
Defective(c) == ~WellFormed(c) \/ c \in readonly

\* C1: in the bag run, when a stage of city A fails and city B is well-formed,
\* B's accessibility analysis and figure are completed, and dask.compute does
\* not end in A's exception.
C1_CityFailuresIsolated ==
    (mode = "bag" /\ RunOver) =>
        \A A, B \in CityNames :
            (A # B /\ Defective(A) /\ ~Defective(B)) =>
                /\ state[AccessibilityTask(PartOf(B))] = "memory"
                /\ state[PlotTask(PartOf(B))] = "memory"
                /\ written[B] = 1
                /\ run = "returned"

\* C2: once the bag run is over, plot has run exactly once for every
\* well-formed city, whose figure file has been written exactly once; no figure
\* file is written twice.
C2_OneFigurePerCity ==
    (mode = "bag" /\ RunOver) =>
        /\ \A c \in CityNames :
              ~Defective(c) =>
                  /\ PlotTask(PartOf(c)) \in started
                  /\ state[PlotTask(PartOf(c))] = "memory"
                  /\ written[c] = 1
        /\ \A c \in CityNames : written[c] <= 1

\* C7 as claimed: until dask.compute is invoked no task body has run and no file
\* has been read or written.
C7_NoFileTouchedBeforeCompute ==
    run = "idle" =>
        /\ started = {}
        /\ filesRead = {}
        /\ \A f \in DOMAIN written : written[f] = 0

\* C7, amended: until dask.compute is invoked no task body has run, no layer
\* file has been read, no object has been loaded and no figure has been written
\* (dask.visualize writes its diagram file).
C7_NoTaskBodyBeforeCompute ==
    run = "idle" =>
        /\ started = {}
        /\ \A t \in graph : state[t] = "waiting"
        /\ filesRead = {}
        /\ \A i \in 1..Len(heap) : heap[i] = NoObject
        /\ \A c \in CityNames : written[c] = 0

\* The bag graph fully composed and visualized, dask.compute not yet invoked.
C7_Witness ==
    /\ mode = "bag"
    /\ run = "idle"
    /\ Cell.op = "compute"
    /\ \A i \in 1..Len(cities) : PlotTask(i) \in graph
    /\ written["mydask"] > 0
    /\ figDir

\* What the inputs decide: whether the body of a task returns.
ExpectedOk(t) ==
    LET c == cities[t.part]
    IN  CASE t.fn = "load_features" -> LayersOk(c, {t.layer})
          [] t.fn = "proximity_analysis" -> LayersOk(c, {"nodes", "edges", "parks"})
          [] t.fn = "accessibility_analysis" -> WellFormed(c)
          [] OTHER -> WellFormed(c) /\ c \notin readonly

\* C8: a task body starts only after all the tasks it depends on have completed,
\* and every interleaving ends with the same results: each task has completed
\* or failed as its inputs decide.
C8_OrderAndSameResults ==
    /\ \A t \in started : \A d \in Deps(t) : state[d] = "memory"
    /\ RunOver =>
          \A t \in graph : state[t] = (IF ExpectedOk(t) THEN "memory" ELSE "erred")

\* The tasks called with the result of t.
Consumers(t) == { u \in graph : t \in Deps(u) }

\* C9: a loaded layer that more than one task consumes is, at any time, as it
\* was loaded.
C9_SharedLayersUnmodified ==
    \A t \in graph :
        (t.fn = "load_features" /\ state[t] = "memory" /\ Cardinality(Consumers(t)) > 1) =>
            heap[result[t]] = loaded[result[t]]

\* Both analyses of the delayed graph have run on the shared nodes, edges and
\* parks, and the buildings object, consumed by one task, carries the new column.
C9_Witness ==
    /\ mode = "delayed"
    /\ run = "returned"
    /\ Cardinality(Consumers(LoadTask(1, "nodes"))) = 2
    /\ "accessibility" \in heap[accessibility].columns
    /\ heap[accessibility] # loaded[accessibility]
    /\ proximity # 0

(* ------------------------- running a second time ------------------------ *)
\* The accessibility table the current run has produced for city c (<<>>: none):
\* the column of the object bound to `accessibility` in the serial section, of
\* the object the city's accessibility_analysis task returned in a graph.
TableOf(c) ==
    IF mode = "serial"
    THEN (IF accessibility # 0 THEN heap[accessibility].acc ELSE << >>)
    ELSE (IF state[AccessibilityTask(PartOf(c))] = "memory"
          THEN heap[result[AccessibilityTask(PartOf(c))]].acc
          ELSE << >>)

\* The pipeline is run again on the same files. In the serial section the cells
\* are run again on the objects the first run left; a graph section is run
\* again from its first cell, in a session with no object, task or record of the
\* first run (the figure folder is there). The tables of the first run are kept
\* for comparison.
Rerun ==
    /\ firstRun = NoRun
    /\ IF mode = "serial" THEN lastCell = "accessibility" ELSE RunOver
    /\ firstRun' = [c \in Range(cities) |-> TableOf(c)]
    /\ \/ /\ mode = "serial"
          /\ lastCell' = "none"
          /\ UNCHANGED << data_folder, heap, loaded, proximity, accessibility, raised,
                          queries, graphVars >>
       \/ /\ mode # "serial"
          /\ cities' = IF mode = "delayed" THEN << "Delft" >> ELSE << >>
          /\ pc' = 1
          /\ heap' = [i \in 1..Len(heap) |-> NoObject]
          /\ loaded' = heap'
          /\ proximity' = 0
          /\ accessibility' = 0
          /\ raised' = "none"
          /\ graph' = {}
          /\ state' = << >>
          /\ result' = << >>
          /\ exc' = << >>
          /\ started' = {}
          /\ run' = "idle"
          /\ requested' = {}
          /\ written' = NoWrites
          /\ filesRead' = {}
          /\ UNCHANGED << data_folder, queries, lastCell, mode, figDir, readonly >>

InitRerun == Init \/ InitGraph

NextRerun == Next \/ NextGraph \/ Rerun

SpecRerun == InitRerun /\ [][NextRerun]_vars

\* The second run is over.
SecondRunOver ==
    /\ firstRun # NoRun
    /\ IF mode = "serial" THEN lastCell = "accessibility" ELSE RunOver

\* C11: when the pipeline has been run a second time on unchanged files (in the
\* serial section on the objects the first run left), the accessibility table
\* of every city is the one of the first run.
C11_RerunSameTables ==
    SecondRunOver => \A c \in DOMAIN firstRun : TableOf(c) = firstRun[c]

(* --------------------- alignment of the bag elements -------------------- *)
\* Object o is the layer l that was loaded from the files of city c.
LoadedFor(o, c, l) ==
    /\ o = Slot(LoadTask(PartOf(c), l))
    /\ loaded[o] = load_features(data_folder, c, l).frame

\* The accessibility column computed from the four layers of city c alone.
OwnTable(c) ==
    LET h == [i \in 1..4 |->
                load_features(data_folder, c,
                    CASE i = nodes -> "nodes" [] i = edges -> "edges"
                      [] i = parks -> "parks" [] OTHER -> "buildings").frame]
    IN  accessibility_analysis(h, nodes, edges, parks, buildings, distance).heap[buildings].acc

\* The tasks of function fn whose body has been entered or has returned.
Entered(fn) == { t \in graph : t.fn = fn /\ state[t] \in {"processing", "memory"} }

\* C12: in the bag graph the accessibility_analysis task of a city receives the
\* four layers loaded for that city, and the plot task of a city receives that
\* city's parks and that city's buildings, annotated from that city's layers, and
\* writes to that city's figure; no figure is written by another city's task.
C12_ElementsAligned ==
    mode = "bag" =>
        /\ \A t \in Entered("accessibility_analysis") :
              /\ LoadedFor(ArgObjects(t)[1], cities[t.part], "nodes")
              /\ LoadedFor(ArgObjects(t)[2], cities[t.part], "edges")
              /\ LoadedFor(ArgObjects(t)[3], cities[t.part], "parks")
              /\ LoadedFor(ArgObjects(t)[4], cities[t.part], "buildings")
        /\ \A t \in Entered("plot") :
              /\ LoadedFor(ArgObjects(t)[1], cities[t.part], "parks")
              /\ LoadedFor(ArgObjects(t)[2], cities[t.part], "buildings")
              /\ heap[ArgObjects(t)[2]].rows = data_folder[cities[t.part]].buildings.rows
              /\ "accessibility" \in heap[ArgObjects(t)[2]].columns
              /\ heap[ArgObjects(t)[2]].acc = OwnTable(cities[t.part])
        /\ \A c \in CityNames :
              written[c] = Cardinality({ t \in graph : /\ t.fn = "plot"
                                                       /\ state[t] = "memory"
                                                       /\ cities[t.part] = c })

\* Both cities, whose layers differ, have been analysed and plotted.
C12_Witness ==
    /\ mode = "bag"
    /\ run = "returned"
    /\ \A l \in {"edges", "parks", "buildings"} :
          data_folder["Delft"][l] # data_folder["Leiden"][l]
    /\ OwnTable("Delft") # OwnTable("Leiden")
    /\ \A i \in 1..Len(cities) :
          state[AccessibilityTask(i)] = "memory" /\ state[PlotTask(i)] = "memory"
    /\ \A c \in CityNames : written[c] = 1

====
